---- MODULE Spec2Model ----
(***************************************************************************)
(* go-keyring on Unix: the kernel-keyring provider (keyring_keyctl.go),    *)
(* the Secret-Service provider, the composite provider and the start-up    *)
(* selection (the file of the Secret-Service provider).                    *)
(*                                                                         *)
(* A Go string is a sequence of one-character strings; a payload is a      *)
(* sequence of byte values.  The provider holds no lock: a call of Set,    *)
(* Get, Delete or DeleteAll is a row of calls into the kernel, the daemon  *)
(* or the keyctl tool, and each of those calls that reads or writes what   *)
(* other callers can see is one action.  proc holds each caller's position *)
(* and locals; the outcome of each call into the environment is drawn at   *)
(* its step as a "fault".  garbage is the bag of the charges of the keys    *)
(* that are unlinked and not yet released by the kernel.  replaces tells    *)
(* whether the daemon replaces an item of equal attributes when one is      *)
(* created.  last is the record of the call that returned last.             *)
(***************************************************************************)
EXTENDS Integers, Sequences, FiniteSets, Bags, TLC

VARIABLES keyring, garbage, items, sessions, replaces, platform,
          getFallbackProvider, provider, initpc, last, proc

vars == <<keyring, garbage, items, sessions, replaces, platform,
          getFallbackProvider, provider, initpc, last, proc>>

----------------------------------------------------------------------------
(* Bounds *)

\* Key quota of the user: the number of keys (add_key fails with EDQUOT
\* beyond it) and the bytes of their descriptions and payloads.
MaxKeys == 3
MaxBytes == 160
\* Capacity of the daemon's collection.
MaxItems == 2

----------------------------------------------------------------------------
(* Errors *)

\* The longest payload a key of type "user" takes.
MaxPayloadLen == 32767

Nil == "nil"
ErrNotFound == "ErrNotFound"

----------------------------------------------------------------------------
(* Go strings package, on sequences of characters *)

HasPrefix(s, prefix) ==
    /\ Len(prefix) <= Len(s)
    /\ SubSeq(s, 1, Len(prefix)) = prefix

\* strings.Index, 1-based; 0 when substr does not occur.
Index(s, substr) ==
    LET hits == {i \in 1..(Len(s) - Len(substr) + 1) :
                    SubSeq(s, i, i + Len(substr) - 1) = substr}
    IN IF hits = {} THEN 0 ELSE CHOOSE i \in hits : \A j \in hits : i <= j

Contains(s, substr) == Index(s, substr) # 0

\* strings.Split(s, sep) for a non-empty sep.
RECURSIVE Split(_, _)
Split(s, sep) ==
    LET i == Index(s, sep)
    IN IF i = 0 THEN <<s>>
       ELSE <<SubSeq(s, 1, i - 1)>> \o Split(SubSeq(s, i + Len(sep), Len(s)), sep)

\* unicode.IsSpace: the characters strings.TrimSpace cuts.  A character that
\* has no escape in a string is written by its code point.
WhiteSpace ==
    {" ", "\t", "\n", "\r", "\f", "U+000B", "U+0085", "U+00A0", "U+1680",
     "U+2000", "U+2001", "U+2002", "U+2003", "U+2004", "U+2005", "U+2006",
     "U+2007", "U+2008", "U+2009", "U+200A", "U+2028", "U+2029", "U+202F",
     "U+205F", "U+3000"}

RECURSIVE TrimLeft(_)
TrimLeft(s) ==
    IF s # <<>> /\ Head(s) \in WhiteSpace THEN TrimLeft(Tail(s)) ELSE s

RECURSIVE TrimRight(_)
TrimRight(s) ==
    IF s # <<>> /\ s[Len(s)] \in WhiteSpace
    THEN TrimRight(SubSeq(s, 1, Len(s) - 1)) ELSE s

TrimSpace(s) == TrimRight(TrimLeft(s))

----------------------------------------------------------------------------
(* The kernel keyring: a set of keys of type "user", [desc, data] *)

NoKey == [desc |-> <<>>, data |-> <<>>]

\* unix.KeyctlSearch: the key with this description; NoKey is the error.
KeyctlSearch(kr, desc) ==
    IF \E k \in kr : k.desc = desc
    THEN CHOOSE k \in kr : k.desc = desc
    ELSE NoKey

\* KEYCTL_UNLINK of a key: the kernel removes the link it finds under the
\* key's type and description.
KeyctlUnlink(kr, key) == {k \in kr : k.desc # key.desc}

\* What a key takes of the byte quota: its description, a NUL and its
\* payload.
Charge(desc, data) == Len(desc) + 1 + Len(data)

RECURSIVE KeyringBytes(_)
KeyringBytes(kr) ==
    IF kr = {} THEN 0
    ELSE LET key == CHOOSE k \in kr : TRUE
         IN Charge(key.desc, key.data) + KeyringBytes(kr \ {key})

\* The bytes a bag of charges comes to.
RECURSIVE GarbageBytes(_, _)
GarbageBytes(g, charges) ==
    IF charges = {} THEN 0
    ELSE LET charge == CHOOSE x \in charges : TRUE
         IN charge * g[charge] + GarbageBytes(g, charges \ {charge})

\* The user's quota in use: the linked keys and the keys that are unlinked
\* and not yet released (`g`, the bag of their charges).
QuotaKeys(kr, g) == Cardinality(kr) + BagCardinality(g)
QuotaBytes(kr, g) == KeyringBytes(kr) + GarbageBytes(g, BagToSet(g))

\* Variant of add_key that links a second key beside a key of the same
\* description instead of updating it.
AddKey_NoUpdate(kr, desc, data, g) ==
    IF Len(data) = 0 \/ Len(data) > MaxPayloadLen THEN [kr |-> kr, err |-> "EINVAL"]
    ELSE IF \/ QuotaKeys(kr, g) + 1 > MaxKeys
            \/ QuotaBytes(kr, g) + Charge(desc, data) > MaxBytes
         THEN [kr |-> kr, err |-> "EDQUOT"]
    ELSE [kr |-> kr \cup {[desc |-> desc, data |-> data]}, err |-> Nil]

\* unix.AddKey("user", desc, data, keyring): an empty payload and one longer
\* than MaxPayloadLen are rejected; a key of the same description is updated
\* in place, which needs byte quota when the payload grows; a new key needs
\* quota for one key and for its bytes.  The quota counts every key of the
\* user until the kernel has released it, the unlinked keys of `g` included.
AddKey(kr, desc, data, g) ==
    LET old == KeyctlSearch(kr, desc)
        delta == Len(data) - Len(old.data)
    IN IF Len(data) = 0 \/ Len(data) > MaxPayloadLen
       THEN [kr |-> kr, err |-> "EINVAL"]
       ELSE IF old # NoKey
            THEN (IF delta > 0 /\ QuotaBytes(kr, g) + delta > MaxBytes
                  THEN [kr |-> kr, err |-> "EDQUOT"]
                  ELSE [kr |-> (kr \ {old}) \cup {[desc |-> desc, data |-> data]},
                        err |-> Nil])
       ELSE IF \/ QuotaKeys(kr, g) + 1 > MaxKeys
               \/ QuotaBytes(kr, g) + Charge(desc, data) > MaxBytes
            THEN [kr |-> kr, err |-> "EDQUOT"]
       ELSE [kr |-> kr \cup {[desc |-> desc, data |-> data]}, err |-> Nil]

\* KEYCTL_READ of a key into a buffer of `size` bytes: the bytes the kernel
\* copies, which are none when the buffer is shorter than the payload.
KeyctlRead(key, size) ==
    IF size < Len(key.data) THEN <<>> ELSE key.data

\* string(buf) of a zeroed buffer of `size` bytes that received `read`.
Buffer(read, size) ==
    [i \in 1..size |-> IF i <= Len(read) THEN read[i] ELSE 0]

\* The text `keyctl show <keyring>` prints: a heading, the keyring itself,
\* then one line per key, "<id> <perms> <uid> <gid>   \_ user: <description>".
ShowHeading == <<"K", "e", "y", "r", "i", "n", "g">>
ShowKeyringLine ==
    <<" ", "7", " ", "-", "-", "a", "l", "s", "w", "r", "v", " ", "0", " ", "0",
      " ", "k", "e", "y", "r", "i", "n", "g", ":", " ", "_", "p", "e", "r", "s",
      "i", "s", "t", "e", "n", "t", ".", "0">>
ShowKeyPrefix ==
    <<" ", "7", " ", "-", "-", "a", "l", "s", "w", "r", "v", " ", "0", " ", "0",
      " ", " ", "\\", "_", " ">>

\* The orders in which the kernel may list the keys of a keyring: the order
\* follows the history of the keyring, which the set of its keys does not
\* tell, so every order of the keys is one.
Orders(kr) ==
    {order \in [1..Cardinality(kr) -> kr] :
        \A k \in kr : \E i \in DOMAIN order : order[i] = k}

\* The key lines of the listing, for the keys in the kernel's order.
RECURSIVE ShowKeys(_)
ShowKeys(order) ==
    IF order = <<>> THEN <<>>
    ELSE ShowKeyPrefix \o <<"u", "s", "e", "r", ":", " ">> \o Head(order).desc
         \o <<"\n">> \o ShowKeys(Tail(order))

KeyctlShow(order) ==
    ShowHeading \o <<"\n">> \o ShowKeyringLine \o <<"\n">> \o ShowKeys(order)

----------------------------------------------------------------------------
(* keyctlProvider *)

\* fmt.Sprintf("%s:%s", service, user)
KeyName(service, user) == service \o <<":">> \o user

----------------------------------------------------------------------------
(* Outcomes of the calls a provider makes into its environment.  A fault    *)
(* names the call that fails.                                               *)

Fault(kind) == [kind |-> kind]
NoFault == Fault("none")

----------------------------------------------------------------------------------------------------------------------------------------
(* The Secret-Service daemon: the items of the login collection, a set of  *)
(* [path, attributes, secret].  The daemon gives a new item an object path  *)
(* no item of the collection has: here the item's attributes and a number   *)
(* that tells it from the other items of these attributes.  Whether the     *)
(* daemon replaces an item of equal attributes when one is created, or adds *)
(* a second one, depends on the daemon.                                     *)

Attributes(service, user) == [username |-> user, service |-> service]

Matches(item, search) ==
    \A k \in DOMAIN search : item.attributes[k] = search[k]

\* svc.SearchItems(collection, search): the paths of the matching items, in
\* the daemon's order, in which items of equal attributes come by their
\* numbers.
RECURSIVE SearchItems(_, _)
SearchItems(its, search) ==
    LET hits == {it \in its : Matches(it, search)}
        first == CHOOSE it \in hits :
                    \A other \in hits : other.attributes = it.attributes
                                           => it.path.n <= other.path.n
    IN IF hits = {} THEN <<>>
       ELSE <<first.path>> \o SearchItems(hits \ {first}, search)

\* svc.CreateItem(collection, label, attributes, secret).  A daemon that
\* replaces on create gives the item of equal attributes the new secret and
\* keeps its path; any other daemon adds an item, whatever the collection
\* holds.  A collection of MaxItems items takes no further item.
CreateItem(its, attributes, secret, replace) ==
    LET same == {it \in its : it.attributes = attributes}
        free == CHOOSE n \in 1..(Cardinality(same) + 1) :
                    \A it \in same : it.path.n # n
        item == [path |-> [of |-> attributes, n |-> free],
                 attributes |-> attributes, secret |-> secret]
    IN IF replace /\ same # {}
       THEN [items |-> {IF it \in same THEN [it EXCEPT !.secret = secret]
                        ELSE it : it \in its},
             err |-> Nil]
       ELSE IF Cardinality(its) >= MaxItems THEN [items |-> its, err |-> "ECREATE"]
       ELSE [items |-> its \cup {item}, err |-> Nil]

\* svc.Delete(item)
DeleteItem(its, path) == {it \in its : it.path # path}

\* svc.GetSecret(item, session)
GetSecret(its, path) == (CHOOSE it \in its : it.path = path).secret

----------------------------------------------------------------------------
(* secretServiceProvider: the searches *)

\* findItem: [path, err]
FindItem(its, service, user, fault) ==
    LET search == [username |-> user, service |-> service]
        results == SearchItems(its, search)
    IN IF fault.kind = "unlock" THEN [path |-> <<>>, err |-> "EUNLOCK"]
       ELSE IF fault.kind = "search" THEN [path |-> <<>>, err |-> "ESEARCH"]
       ELSE IF Len(results) = 0 THEN [path |-> <<>>, err |-> ErrNotFound]
       ELSE [path |-> results[1], err |-> Nil]

\* findServiceItems: [paths, err]
FindServiceItems(its, service, fault) ==
    LET search == [service |-> service]
        results == SearchItems(its, search)
    IN IF fault.kind = "unlock" THEN [paths |-> <<>>, err |-> "EUNLOCK"]
       ELSE IF fault.kind = "search" THEN [paths |-> <<>>, err |-> "ESEARCH"]
       ELSE IF Len(results) = 0 THEN [paths |-> <<>>, err |-> ErrNotFound]
       ELSE [paths |-> results, err |-> Nil]

----------------------------------------------------------------------------
(* Providers.  A provider value is [kind, primary, fallback]; the world is  *)
(* what the kernel and the daemon hold.                                     *)

KeyctlProvider == [kind |-> "keyctl", primary |-> "nil", fallback |-> "nil"]
SecretServiceProvider ==
    [kind |-> "secretService", primary |-> "nil", fallback |-> "nil"]
CompositeProvider(primary, fallback) ==
    [kind |-> "composite", primary |-> primary, fallback |-> fallback]
Unset == [kind |-> "unset", primary |-> "nil", fallback |-> "nil"]

World(kr, its, open) == [keyring |-> kr, items |-> its, sessions |-> open]
NoWorld == World({}, {}, 0)
TheWorld == World(keyring, items, sessions)

----------------------------------------------------------------------------
(* Callers.  A caller holds the key ID it found as the key's description   *)
(* and `live`, which turns false when the key is unlinked by anyone;       *)
(* `data` is the payload an unlinked key had, which a read through the     *)
(* stale ID may still return or may fail to return.  It holds the item     *)
(* paths it found, and in `stale` those of them whose items were deleted   *)
(* since.  In a composite a caller is in the primary     *)
(* first and, when that returns an error, in the fallback.  f1 and f2 are  *)
(* the faults the call met in the two, w0 is the world the call started    *)
(* from, turn counts the turns of the loop of DeleteAll.                    *)

Caller(op, service, user, pass) ==
    [pc |-> "start", op |-> op, service |-> service, user |-> user,
     pass |-> pass, stage |-> "primary", perr |-> Nil, err |-> Nil,
     val |-> <<>>, f1 |-> NoFault, f2 |-> NoFault, w0 |-> NoWorld,
     key |-> <<>>, live |-> FALSE, data |-> <<>>, size |-> 0, lines |-> <<>>,
     paths |-> <<>>, turn |-> 0, stale |-> {}, session |-> FALSE]

\* The backend a caller is in.
BackendOf(c) ==
    IF provider.kind # "composite" THEN provider.kind
    ELSE IF c.stage = "primary" THEN provider.primary
    ELSE provider.fallback

\* The caller's record with the outcome its step drew.
Met(c, fault) ==
    IF fault = NoFault THEN c
    ELSE IF c.stage = "primary" THEN [c EXCEPT !.f1 = fault]
    ELSE [c EXCEPT !.f2 = fault]

\* The locals of a method are gone when it returns.
Left(c) ==
    [c EXCEPT !.live = FALSE, !.data = <<>>, !.size = 0, !.lines = <<>>,
              !.paths = <<>>, !.stale = {}]

\* The call returns to the caller.
Done(c, err) ==
    [Left(c) EXCEPT !.pc = "done", !.err = err,
                    !.perr = IF c.stage = "primary" THEN err ELSE c.perr,
                    !.val = IF err = Nil THEN c.val ELSE <<>>,
                    !.w0 = NoWorld]

\* The fallback's method is called with the arguments of the call.
ToFallback(c, err) ==
    [Left(c) EXCEPT !.pc = "start", !.stage = "fallback", !.perr = err,
                    !.err = Nil, !.val = <<>>, !.key = <<>>, !.turn = 0]

\* Variant of the composite that consults the fallback only when the
\* primary returned ErrNotFound.
Return_OnlyNotFound(c, err) ==
    IF /\ provider.kind = "composite" /\ provider.fallback # "nil"
       /\ c.stage = "primary" /\ err = ErrNotFound
    THEN ToFallback(c, err)
    ELSE Done(c, err)

\* Variant of the composite that calls the fallback as well when the
\* primary's Set returned nil.
Return_Both(c, err) ==
    IF /\ provider.kind = "composite" /\ provider.fallback # "nil"
       /\ c.stage = "primary" /\ (err # Nil \/ c.op = "Set")
    THEN ToFallback(c, err)
    ELSE Done(c, err)

\* Variant of the composite whose Get never consults the fallback.
Return_PrimaryOnly(c, err) ==
    IF /\ provider.kind = "composite" /\ provider.fallback # "nil"
       /\ c.stage = "primary" /\ err # Nil /\ c.op # "Get"
    THEN ToFallback(c, err)
    ELSE Done(c, err)

\* Variant of the composite whose Delete reports success when the primary
\* fails and there is no fallback to ask.
Return_NilOnError(c, err) ==
    IF /\ provider.kind = "composite" /\ provider.fallback # "nil"
       /\ c.stage = "primary" /\ err # Nil
    THEN ToFallback(c, err)
    ELSE IF provider.kind = "composite" /\ c.op = "Delete"
         THEN [Done(c, err) EXCEPT !.err = Nil]
    ELSE Done(c, err)

\* A backend's method returns: a composite goes on to its fallback when the
\* primary returned an error and there is a fallback, any other call is
\* over.
Return(c, err) ==
    IF /\ provider.kind = "composite" /\ provider.fallback # "nil"
       /\ c.stage = "primary" /\ err # Nil
    THEN ToFallback(c, err)
    ELSE Done(c, err)

\* The backends a call went through.
CallsOf(c) ==
    IF provider.kind # "composite" THEN <<provider.kind>>
    ELSE IF c.stage = "primary" THEN <<provider.primary>>
    ELSE <<provider.primary, provider.fallback>>

\* The record of a call that has returned: what was asked and the error
\* that came back.  The record of start-up holds the outcome of its probe
\* and what the hook gave it.
NoCall ==
    [op |-> "none", service |-> <<>>, user |-> <<>>, pass |-> <<>>,
     err |-> Nil, probe |-> NoFault, hook |-> "nil"]

Called(c) ==
    [op |-> c.op, service |-> c.service, user |-> c.user, pass |-> c.pass,
     err |-> c.err, probe |-> NoFault, hook |-> "nil"]

\* last records the call of caller p when this step is its return.
Recorded(p) ==
    last' = IF proc'[p].pc = "done" THEN Called(proc'[p]) ELSE last

Selected ==
    UNCHANGED <<replaces, platform, getFallbackProvider, provider, initpc>>

\* Every init() of the package has run: calls come after start-up.
Started ==
    /\ initpc = "ready"
    /\ platform = "linux" => getFallbackProvider = "keyctl"

\* A step that changes nothing but its caller.
OnlyProc(p) ==
    /\ Recorded(p)
    /\ UNCHANGED <<keyring, garbage, items, sessions>>
    /\ Selected

\* A caller that is in no call.
Idle == Done(Caller("none", <<>>, <<>>, <<>>), Nil)

\* Caller p calls a method of the provider.
Call(p, op, service, user, pass) ==
    /\ Started
    /\ proc[p].pc = "done"
    /\ proc' = [proc EXCEPT ![p] =
                  [Caller(op, service, user, pass) EXCEPT !.w0 = TheWorld]]
    /\ UNCHANGED <<keyring, garbage, items, sessions, last>>
    /\ Selected

----------------------------------------------------------------------------
(* The kernel releases the quota of an unlinked key some time after the    *)
(* unlink.                                                                  *)

Collect ==
    /\ \E charge \in BagToSet(garbage) :
          garbage' = garbage (-) SetToBag({charge})
    /\ UNCHANGED <<keyring, items, sessions, last, proc>>
    /\ Selected

----------------------------------------------------------------------------
(* keyctlProvider, call by call *)

\* The caller enters Set, Get or Delete of keyctlProvider:
\* getPersistentKeyring.
Enter(p, fault) ==
    /\ proc[p].pc = "start" /\ BackendOf(proc[p]) = "keyctl"
    /\ proc[p].op \in {"Set", "Get", "Delete"}
    /\ LET c == Met(proc[p], fault)
       IN proc' = [proc EXCEPT ![p] =
                     IF fault.kind = "keyring" THEN Return(c, "EKEYRING")
                     ELSE [c EXCEPT !.pc = "search",
                                    !.key = KeyName(c.service, c.user)]]
    /\ OnlyProc(p)

\* Variant of the search in which a Delete that finds no key returns nil.
Search_SilentMiss(p) ==
    /\ proc[p].pc = "search"
    /\ LET c == proc[p]
           found == KeyctlSearch(keyring, c.key) # NoKey
       IN proc' = [proc EXCEPT ![p] =
                     IF found
                     THEN [c EXCEPT !.pc = IF c.op = "Get" THEN "size" ELSE "unlink",
                                    !.live = TRUE]
                     ELSE IF c.op = "Set" THEN [c EXCEPT !.pc = "add"]
                     ELSE IF c.op = "Delete" THEN Return(c, Nil)
                     ELSE Return(c, ErrNotFound)]
    /\ OnlyProc(p)

\* unix.KeyctlSearch of Set, Get and Delete.  Get and Delete return
\* ErrNotFound when it fails; Set goes on to add the key.
Search(p) ==
    /\ proc[p].pc = "search"
    /\ LET c == proc[p]
           found == KeyctlSearch(keyring, c.key) # NoKey
       IN proc' = [proc EXCEPT ![p] =
                     IF found
                     THEN [c EXCEPT !.pc = IF c.op = "Get" THEN "size" ELSE "unlink",
                                    !.live = TRUE]
                     ELSE IF c.op = "Set" THEN [c EXCEPT !.pc = "add"]
                     ELSE Return(c, ErrNotFound)]
    /\ OnlyProc(p)

\* The key behind the key ID a caller holds: the linked key; or the key as
\* it was when it was unlinked, as long as a key of its charge is not yet
\* released; or none.
HeldKey(c) ==
    IF c.live THEN KeyctlSearch(keyring, c.key)
    ELSE IF BagIn(Charge(c.key, c.data), garbage)
         THEN [desc |-> c.key, data |-> c.data]
    ELSE NoKey

\* What an unlink does to the callers: the one that made it goes on as
\* `then`; those that hold the ID of the key that went hold a stale ID.
Unlinked(p, then, unlinked, linked) ==
    [q \in DOMAIN proc |->
        IF q = p THEN then
        ELSE IF unlinked /\ proc[q].key = linked.desc /\ proc[q].live
             THEN [proc[q] EXCEPT !.live = FALSE, !.data = linked.data]
        ELSE proc[q]]

\* Variant of the unlink step in which DeleteAll returns a failed unlink.
Unlink_Strict(p, fault) ==
    /\ proc[p].pc = "unlink"
    /\ LET c == Met(proc[p], fault)
           linked == KeyctlSearch(keyring, c.key)
           unlinked == /\ linked # NoKey /\ HeldKey(c) # NoKey
                       /\ fault.kind # "unlink"
           then == IF c.op = "Set" THEN [c EXCEPT !.pc = "add", !.live = FALSE]
                   ELSE IF c.op = "DeleteAll" /\ unlinked
                        THEN [c EXCEPT !.pc = "line", !.live = FALSE]
                   ELSE Return(c, IF unlinked THEN Nil ELSE "EUNLINK")
       IN /\ keyring' = IF unlinked THEN KeyctlUnlink(keyring, linked) ELSE keyring
          /\ garbage' = IF unlinked THEN garbage (+) SetToBag({Charge(linked.desc, linked.data)}) ELSE garbage
          /\ proc' = Unlinked(p, then, unlinked, linked)
    /\ Recorded(p)
    /\ UNCHANGED <<items, sessions>>
    /\ Selected

\* KEYCTL_UNLINK through the key ID the caller found.  The kernel removes
\* the key that is linked under the description of that key, which is
\* another key when the one found was replaced in between; it fails when
\* none is linked, when the key found has been released, and (fault) for a
\* reason of its own.  The key that went is charged to the user until the
\* kernel releases it.  Set and DeleteAll drop the result; Delete returns
\* it.
Unlink(p, fault) ==
    /\ proc[p].pc = "unlink"
    /\ LET c == Met(proc[p], fault)
           linked == KeyctlSearch(keyring, c.key)
           unlinked == /\ linked # NoKey /\ HeldKey(c) # NoKey
                       /\ fault.kind # "unlink"
           then == IF c.op = "Set" THEN [c EXCEPT !.pc = "add", !.live = FALSE]
                   ELSE IF c.op = "DeleteAll"
                        THEN [c EXCEPT !.pc = "line", !.live = FALSE]
                   ELSE Return(c, IF unlinked THEN Nil ELSE "EUNLINK")
       IN /\ keyring' = IF unlinked THEN KeyctlUnlink(keyring, linked) ELSE keyring
          /\ garbage' = IF unlinked THEN garbage (+) SetToBag({Charge(linked.desc, linked.data)}) ELSE garbage
          /\ proc' = Unlinked(p, then, unlinked, linked)
    /\ Recorded(p)
    /\ UNCHANGED <<items, sessions>>
    /\ Selected

\* unix.AddKey of Set, whose error Set returns.
Add(p) ==
    /\ proc[p].pc = "add"
    /\ LET c == proc[p]
           added == AddKey(keyring, c.key, c.pass, garbage)
       IN /\ keyring' = added.kr
          /\ proc' = [proc EXCEPT ![p] = Return(c, added.err)]
    /\ Recorded(p)
    /\ UNCHANGED <<garbage, items, sessions>>
    /\ Selected

\* KEYCTL_READ with no buffer, of Get: the size of the payload.
SizeQuery(p, fault) ==
    /\ proc[p].pc = "size"
    /\ LET c == Met(proc[p], fault)
           key == HeldKey(c)
       IN proc' = [proc EXCEPT ![p] =
                     IF fault.kind = "read" THEN Return(c, "EREAD")
                     ELSE IF key = NoKey THEN Return(c, "ENOKEY")
                     ELSE [c EXCEPT !.pc = "read", !.size = Len(key.data)]]
    /\ OnlyProc(p)

\* KEYCTL_READ into the buffer, of Get, and the return of the buffer.
Read(p, fault) ==
    /\ proc[p].pc = "read"
    /\ LET c == Met(proc[p], fault)
           key == HeldKey(c)
           buf == Buffer(KeyctlRead(key, c.size), c.size)
       IN proc' = [proc EXCEPT ![p] =
                     IF fault.kind = "read" THEN Return(c, "EREAD")
                     ELSE IF key = NoKey THEN Return(c, "ENOKEY")
                     ELSE Return([c EXCEPT !.val = buf], Nil)]
    /\ OnlyProc(p)

\* Variant of DeleteAll without the guard on the empty service.
EnterDeleteAll_NoGuard(p, fault, order) ==
    /\ proc[p].pc = "start" /\ BackendOf(proc[p]) = "keyctl"
    /\ proc[p].op = "DeleteAll"
    /\ LET c == Met(proc[p], fault)
       IN proc' = [proc EXCEPT ![p] =
                     IF fault.kind = "keyring" THEN Return(c, "EKEYRING")
                     ELSE IF fault.kind = "tool" THEN Return(c, Nil)
                     ELSE [c EXCEPT !.pc = "line",
                                    !.lines = Split(KeyctlShow(order), <<"\n">>)]]
    /\ OnlyProc(p)

\* Variant of DeleteAll that returns the error of running the tool.
EnterDeleteAll_ToolError(p, fault, order) ==
    /\ proc[p].pc = "start" /\ BackendOf(proc[p]) = "keyctl"
    /\ proc[p].op = "DeleteAll"
    /\ LET c == IF proc[p].service = <<>> THEN proc[p] ELSE Met(proc[p], fault)
       IN proc' = [proc EXCEPT ![p] =
                     IF c.service = <<>> THEN Return(c, ErrNotFound)
                     ELSE IF fault.kind = "keyring" THEN Return(c, "EKEYRING")
                     ELSE IF fault.kind = "tool" THEN Return(c, "ETOOL")
                     ELSE [c EXCEPT !.pc = "line",
                                    !.lines = Split(KeyctlShow(order), <<"\n">>)]]
    /\ OnlyProc(p)

\* The caller enters DeleteAll of keyctlProvider: the guard,
\* getPersistentKeyring, and the run of `keyctl show`, whose output, with
\* the keys in the order the kernel lists them in, is split into lines.
EnterDeleteAll(p, fault, order) ==
    /\ proc[p].pc = "start" /\ BackendOf(proc[p]) = "keyctl"
    /\ proc[p].op = "DeleteAll"
    /\ LET c == IF proc[p].service = <<>> THEN proc[p] ELSE Met(proc[p], fault)
       IN proc' = [proc EXCEPT ![p] =
                     IF c.service = <<>> THEN Return(c, ErrNotFound)
                     ELSE IF fault.kind = "keyring" THEN Return(c, "EKEYRING")
                     ELSE IF fault.kind = "tool" THEN Return(c, Nil)
                     ELSE [c EXCEPT !.pc = "line",
                                    !.lines = Split(KeyctlShow(order), <<"\n">>)]]
    /\ OnlyProc(p)

\* The description DeleteAll reads from a line of the listing, <<>> when the
\* line is skipped.
ListedKey(service, line) ==
    LET prefix == service \o <<":">>
        parts == Split(line, <<"u", "s", "e", "r", ":">>)
        keyDesc == TrimSpace(parts[2])
    IN IF ~Contains(line, prefix) THEN <<>>
       ELSE IF Len(parts) < 2 THEN <<>>
       ELSE IF ~HasPrefix(keyDesc, service \o <<":">>) THEN <<>>
       ELSE keyDesc

\* One turn of DeleteAll's loop up to its KeyctlSearch; the end of the loop
\* returns nil.
Line(p) ==
    /\ proc[p].pc = "line"
    /\ LET c == proc[p]
           keyDesc == ListedKey(c.service, Head(c.lines))
           rest == [c EXCEPT !.lines = Tail(c.lines)]
       IN proc' = [proc EXCEPT ![p] =
                     IF c.lines = <<>> THEN Return(c, Nil)
                     ELSE IF keyDesc = <<>> THEN rest
                     ELSE IF KeyctlSearch(keyring, keyDesc) = NoKey THEN rest
                     ELSE [rest EXCEPT !.pc = "unlink", !.key = keyDesc,
                                       !.live = TRUE]]
    /\ OnlyProc(p)

----------------------------------------------------------------------------
(* secretServiceProvider, call by call.  ss.NewSecretService and svc.Unlock *)
(* change nothing another caller sees: NewSecretService is one step with    *)
(* the guard before it, Unlock is part of the step of the call after it.    *)

\* The caller enters a method of secretServiceProvider: the guard of
\* DeleteAll, and ss.NewSecretService.
NewSecretService(p, fault) ==
    /\ proc[p].pc = "start" /\ BackendOf(proc[p]) = "secretService"
    /\ LET guarded == proc[p].op = "DeleteAll" /\ proc[p].service = <<>>
           c == IF guarded THEN proc[p] ELSE Met(proc[p], fault)
       IN proc' = [proc EXCEPT ![p] =
                     IF guarded THEN Return(c, ErrNotFound)
                     ELSE IF fault.kind = "connect" THEN Return(c, "ECONNECT")
                     ELSE [c EXCEPT !.pc = IF c.op = "Set" THEN "session"
                                           ELSE "find"]]
    /\ OnlyProc(p)

\* Variant of the search in which DeleteAll returns the ErrNotFound of
\* findServiceItems.
SvcSearchItems_NoFold(p, fault) ==
    /\ proc[p].pc = "find"
    /\ LET c == Met(proc[p], fault)
           one == FindItem(items, c.service, c.user, fault)
           all == FindServiceItems(items, c.service, fault)
       IN proc' = [proc EXCEPT ![p] =
                     IF c.op = "DeleteAll"
                     THEN (IF all.err # Nil THEN Return(c, all.err)
                           ELSE [c EXCEPT !.pc = "delete", !.paths = all.paths])
                     ELSE IF one.err # Nil THEN Return(c, one.err)
                     ELSE [c EXCEPT !.pc = IF c.op = "Get" THEN "session"
                                           ELSE "delete",
                                    !.paths = <<one.path>>]]
    /\ OnlyProc(p)

\* findItem of Get and Delete, findServiceItems of DeleteAll: svc.Unlock of
\* the collection and svc.SearchItems.  DeleteAll returns nil when nothing
\* matches.
SvcSearchItems(p, fault) ==
    /\ proc[p].pc = "find"
    /\ LET c == Met(proc[p], fault)
           one == FindItem(items, c.service, c.user, fault)
           all == FindServiceItems(items, c.service, fault)
       IN proc' = [proc EXCEPT ![p] =
                     IF c.op = "DeleteAll"
                     THEN (IF all.err = ErrNotFound THEN Return(c, Nil)
                           ELSE IF all.err # Nil THEN Return(c, all.err)
                           ELSE [c EXCEPT !.pc = "delete", !.paths = all.paths])
                     ELSE IF one.err # Nil THEN Return(c, one.err)
                     ELSE [c EXCEPT !.pc = IF c.op = "Get" THEN "session"
                                           ELSE "delete",
                                    !.paths = <<one.path>>]]
    /\ OnlyProc(p)

\* svc.OpenSession of Set and Get.
SvcOpenSession(p, fault) ==
    /\ proc[p].pc = "session"
    /\ LET c == Met(proc[p], fault)
           failed == fault.kind = "session"
       IN /\ proc' = [proc EXCEPT ![p] =
                        IF failed THEN Return(c, "ESESSION")
                        ELSE [c EXCEPT !.pc = IF c.op = "Set" THEN "create"
                                              ELSE "secret",
                                       !.session = TRUE]]
          /\ sessions' = IF failed THEN sessions ELSE sessions + 1
    /\ Recorded(p)
    /\ UNCHANGED <<keyring, garbage, items>>
    /\ Selected

\* svc.Unlock of the collection and svc.CreateItem, of Set.  The session is
\* still open when they return.
SvcCreateItem(p, fault) ==
    /\ proc[p].pc = "create"
    /\ LET c == Met(proc[p], fault)
           created == CreateItem(items, Attributes(c.service, c.user), c.pass,
                                 replaces)
           err == IF fault.kind = "unlock" THEN "EUNLOCK"
                  ELSE IF fault.kind = "create" THEN "ECREATE"
                  ELSE created.err
       IN /\ items' = IF fault.kind \in {"unlock", "create"} THEN items
                      ELSE created.items
          /\ proc' = [proc EXCEPT ![p] = [c EXCEPT !.pc = "close", !.err = err]]
    /\ Recorded(p)
    /\ UNCHANGED <<keyring, garbage, sessions>>
    /\ Selected

\* Variant of Get without the defer: an error return leaves the session
\* open.
SvcGetSecret_NoDefer(p, fault) ==
    /\ proc[p].pc = "secret"
    /\ LET c == Met(proc[p], fault)
           item == c.paths[1]
           err == IF fault.kind = "unlockitem" THEN "EUNLOCK"
                  ELSE IF fault.kind = "getsecret" \/ item \in c.stale
                       THEN "EGETSECRET"
                  ELSE Nil
       IN proc' = [proc EXCEPT ![p] =
                     IF err # Nil THEN Return(c, err)
                     ELSE [c EXCEPT !.pc = "close", !.err = Nil,
                                    !.val = GetSecret(items, item)]]
    /\ OnlyProc(p)

\* svc.Unlock of the item and svc.GetSecret, of Get.  An item that was
\* deleted since it was found has no secret to give.  The session is still
\* open when they return.
SvcGetSecret(p, fault) ==
    /\ proc[p].pc = "secret"
    /\ LET c == Met(proc[p], fault)
           item == c.paths[1]
           err == IF fault.kind = "unlockitem" THEN "EUNLOCK"
                  ELSE IF fault.kind = "getsecret" \/ item \in c.stale
                       THEN "EGETSECRET"
                  ELSE Nil
       IN proc' = [proc EXCEPT ![p] =
                     IF err # Nil THEN [c EXCEPT !.pc = "close", !.err = err]
                     ELSE [c EXCEPT !.pc = "close", !.err = Nil,
                                    !.val = GetSecret(items, item)]]
    /\ OnlyProc(p)

\* The deferred svc.Close(session) of Set and Get, and their return.
SvcClose(p) ==
    /\ proc[p].pc = "close"
    /\ LET c == proc[p]
       IN proc' = [proc EXCEPT ![p] = Return([c EXCEPT !.session = FALSE], c.err)]
    /\ sessions' = sessions - 1
    /\ Recorded(p)
    /\ UNCHANGED <<keyring, garbage, items>>
    /\ Selected

\* What a Delete of an item does to the callers: the one that made it goes
\* on as `then`; those that hold the path of the item hold a stale path.
Deleted(p, then, deleted, item) ==
    [q \in DOMAIN proc |->
        IF q = p THEN then
        ELSE IF /\ deleted
                /\ proc[q].pc \in {"session", "secret", "delete"}
                /\ \E i \in DOMAIN proc[q].paths : proc[q].paths[i] = item
             THEN [proc[q] EXCEPT !.stale = proc[q].stale \cup {item}]
        ELSE proc[q]]

\* Variant of DeleteAll's loop that goes on after a failed Delete.
SvcDelete_GoOn(p, fault) ==
    /\ proc[p].pc = "delete"
    /\ LET c == [Met(proc[p], fault) EXCEPT !.turn = proc[p].turn + 1]
           item == Head(c.paths)
           failed == fault.kind = "delete"
           rest == [c EXCEPT !.paths = Tail(c.paths)]
           deleted == ~failed /\ item \notin c.stale
           then == IF c.op = "DeleteAll" /\ rest.paths # <<>> THEN rest
                   ELSE IF failed THEN Return(c, "EDELETE")
                   ELSE Return(rest, Nil)
       IN /\ items' = IF deleted THEN DeleteItem(items, item) ELSE items
          /\ proc' = Deleted(p, then, deleted, item)
    /\ Recorded(p)
    /\ UNCHANGED <<keyring, garbage, sessions>>
    /\ Selected

\* svc.Delete of Delete, and of one turn of DeleteAll's loop, which returns
\* the first error and returns nil after the last item.  The daemon's answer
\* for an item that was deleted since it was found is either an error or
\* nil.
SvcDelete(p, fault) ==
    /\ proc[p].pc = "delete"
    /\ LET c == [Met(proc[p], fault) EXCEPT !.turn = proc[p].turn + 1]
           item == Head(c.paths)
           failed == fault.kind = "delete"
           rest == [c EXCEPT !.paths = Tail(c.paths)]
           deleted == ~failed /\ item \notin c.stale
           then == IF failed THEN Return(c, "EDELETE")
                   ELSE IF c.op = "DeleteAll" /\ rest.paths # <<>> THEN rest
                   ELSE Return(rest, Nil)
       IN /\ items' = IF deleted THEN DeleteItem(items, item) ELSE items
          /\ proc' = Deleted(p, then, deleted, item)
    /\ Recorded(p)
    /\ UNCHANGED <<keyring, garbage, sessions>>
    /\ Selected

----------------------------------------------------------------------------
(* Start-up *)

\* keyring_keyctl.go init(): registers the kernel keyring as the fallback.
\* It runs once, before or after the init() that selects the provider.
KeyctlInit ==
    /\ platform = "linux"
    /\ getFallbackProvider = "nil"
    /\ getFallbackProvider' = "keyctl"
    /\ UNCHANGED <<keyring, garbage, items, sessions, replaces, platform,
                   provider, initpc, last, proc>>

\* What init() selects, given the probe's outcome and the hook.
\* Variant of the selection that wires the fallback whenever one is registered.
SelectProvider_AlwaysWire(probe, hook) ==
    IF hook # "nil" THEN CompositeProvider("secretService", hook)
    ELSE SecretServiceProvider

SelectProvider(probe, hook) ==
    IF probe.kind # "connect" THEN SecretServiceProvider
    ELSE IF hook # "nil" THEN CompositeProvider("secretService", hook)
    ELSE SecretServiceProvider

\* init() of the file of the Secret-Service provider: the probe, and the
\* selection from what the hook yields when init() runs.  The init functions
\* of a package run in the order of its files as they are handed to the
\* compiler, and the name of this file is not known: this init() runs
\* before or after that of keyring_keyctl.go.
UnixInit(probe) ==
    /\ initpc = "start"
    /\ provider' = SelectProvider(probe, getFallbackProvider)
    /\ initpc' = "ready"
    /\ last' = [NoCall EXCEPT !.op = "init", !.probe = probe,
                              !.hook = getFallbackProvider]
    /\ UNCHANGED <<keyring, garbage, items, sessions, replaces, platform,
                   getFallbackProvider, proc>>

----------------------------------------------------------------------------
(* Inputs *)

Payloads == {<<>>, <<0, 255, 10>>}

\* The program as started: the pair ("a", "b"), the services "" and "a".
Pairs == {<<<<"a">>, <<"b">>>>}
Services == {<<>>, <<"a">>}

\* A backend used directly: the pairs ("a","b") and ("a","c"), the services
\* "", "a" and "user", the empty payload and a binary one.  The kernel
\* keyring is also given the pair ("user","b") and a payload that with the
\* description "a:b" fits the byte quota of an empty keyring and with the
\* description "user:b" does not.
BackendPairs ==
    {<<<<"a">>, <<"b">>>>, <<<<"a">>, <<"c">>>>}
    \cup (IF provider.kind = "keyctl"
          THEN {<<<<"u", "s", "e", "r">>, <<"b">>>>} ELSE {})
BackendServices == {<<>>, <<"a">>, <<"u", "s", "e", "r">>}
NearQuota == [i \in 1..(MaxBytes - 6) |-> 120]
BackendPayloads ==
    {<<>>, <<0, 255, 10>>}
    \cup (IF provider.kind = "keyctl" THEN {NearQuota} ELSE {})

\* One caller, who makes one call after another.
OneCaller == <<Idle>>

----------------------------------------------------------------------------
(* The program: start-up, then calls on the selected provider *)

Init ==
    /\ keyring = {}
    /\ garbage = EmptyBag
    /\ items = {}
    /\ sessions = 0
    /\ replaces \in BOOLEAN
    /\ platform \in {"linux", "other"}
    /\ getFallbackProvider = "nil"
    /\ provider = Unset
    /\ initpc = "start"
    /\ last = NoCall
    /\ proc = OneCaller

Next ==
    \/ KeyctlInit
    \/ \E probe \in {NoFault, Fault("connect")} : UnixInit(probe)
    \/ Collect
    \/ \E p \in DOMAIN proc :
        \/ \E su \in Pairs, pass \in Payloads : Call(p, "Set", su[1], su[2], pass)
        \/ \E su \in Pairs : Call(p, "Get", su[1], su[2], <<>>)
        \/ \E su \in Pairs : Call(p, "Delete", su[1], su[2], <<>>)
        \/ \E service \in Services : Call(p, "DeleteAll", service, <<>>, <<>>)
        \/ \E fault \in {NoFault, Fault("connect")} : NewSecretService(p, fault)
        \/ \E fault \in {NoFault, Fault("unlock"), Fault("search")} :
              SvcSearchItems(p, fault)
        \/ \E fault \in {NoFault, Fault("session")} : SvcOpenSession(p, fault)
        \/ \E fault \in {NoFault, Fault("unlock"), Fault("create")} :
              SvcCreateItem(p, fault)
        \/ \E fault \in {NoFault, Fault("unlockitem"), Fault("getsecret")} :
              SvcGetSecret(p, fault)
        \/ SvcClose(p)
        \/ \E fault \in {NoFault, Fault("delete")} : SvcDelete(p, fault)
        \/ \E fault \in {NoFault, Fault("keyring")} : Enter(p, fault)
        \/ Search(p)
        \/ \E fault \in {NoFault, Fault("unlink")} : Unlink(p, fault)
        \/ Add(p)
        \/ \E fault \in {NoFault, Fault("read")} : SizeQuery(p, fault)
        \/ \E fault \in {NoFault, Fault("read")} : Read(p, fault)
        \/ \E fault \in {NoFault, Fault("keyring"), Fault("tool")},
             order \in Orders(keyring) :
              EnterDeleteAll(p, fault, order)
        \/ Line(p)

Spec == Init /\ [][Next]_vars

----------------------------------------------------------------------------
(* A backend used directly, as the tests use keyctlProvider{} *)

InitBackend ==
    /\ keyring = {}
    /\ garbage = EmptyBag
    /\ items = {}
    /\ sessions = 0
    /\ platform = "linux"
    /\ getFallbackProvider = "keyctl"
    /\ provider \in {KeyctlProvider, SecretServiceProvider}
    /\ replaces \in (IF provider = KeyctlProvider THEN {TRUE} ELSE BOOLEAN)
    /\ initpc = "ready"
    /\ last = NoCall
    /\ proc = OneCaller

NextBackend ==
    \/ Collect
    \/ \E p \in DOMAIN proc :
        \/ \E su \in BackendPairs, pass \in BackendPayloads :
              Call(p, "Set", su[1], su[2], pass)
        \/ \E su \in BackendPairs : Call(p, "Get", su[1], su[2], <<>>)
        \/ \E su \in BackendPairs : Call(p, "Delete", su[1], su[2], <<>>)
        \/ \E service \in BackendServices : Call(p, "DeleteAll", service, <<>>, <<>>)
        \/ \E fault \in {NoFault, Fault("connect")} : NewSecretService(p, fault)
        \/ \E fault \in {NoFault, Fault("unlock"), Fault("search")} :
              SvcSearchItems(p, fault)
        \/ \E fault \in {NoFault, Fault("session")} : SvcOpenSession(p, fault)
        \/ \E fault \in {NoFault, Fault("unlock"), Fault("create")} :
              SvcCreateItem(p, fault)
        \/ \E fault \in {NoFault, Fault("unlockitem"), Fault("getsecret")} :
              SvcGetSecret(p, fault)
        \/ SvcClose(p)
        \/ \E fault \in {NoFault, Fault("delete")} : SvcDelete(p, fault)
        \/ \E fault \in {NoFault, Fault("keyring")} : Enter(p, fault)
        \/ Search(p)
        \/ \E fault \in {NoFault, Fault("unlink")} : Unlink(p, fault)
        \/ Add(p)
        \/ \E fault \in {NoFault, Fault("read")} : SizeQuery(p, fault)
        \/ \E fault \in {NoFault, Fault("read")} : Read(p, fault)
        \/ \E fault \in {NoFault, Fault("keyring"), Fault("tool")},
             order \in Orders(keyring) :
              EnterDeleteAll(p, fault, order)
        \/ Line(p)

SpecBackend == InitBackend /\ [][NextBackend]_vars

----------------------------------------------------------------------------
(* Vocabulary of the properties *)

TheWorldNext == World(keyring', items', sessions')

\* The step is the return of a call of the one caller, which last' records;
\* the call started in the world Before.
Returning == proc[1].pc # "done" /\ proc'[1].pc = "done"
Before == proc[1].w0
Returned == proc'[1]
SetStep == Returning /\ Returned.op = "Set"
GetStep == Returning /\ Returned.op = "Get"
DeleteStep == Returning /\ Returned.op = "Delete"
DeleteAllStep == Returning /\ Returned.op = "DeleteAll"

\* The records a backend holds for a pair, and for a service.
RecordsOf(kind, w, service, user) ==
    IF kind = "keyctl"
    THEN {k \in w.keyring : k.desc = KeyName(service, user)}
    ELSE {it \in w.items : it.attributes = Attributes(service, user)}

RecordsOfService(kind, w, service) ==
    IF kind = "keyctl"
    THEN {k \in w.keyring : HasPrefix(k.desc, service \o <<":">>)}
    ELSE {it \in w.items : it.attributes.service = service}

\* The payload of a record of either backend.
PayloadOf(kind, record) == IF kind = "keyctl" THEN record.data ELSE record.secret

\* The call got as far as looking the record up.
LookupRuns(fault) == fault.kind \notin {"keyring", "connect", "unlock", "search"}

\* The call that returns and the one before it are on the same pair.
SamePair == Returned.service = last.service /\ Returned.user = last.user

----------------------------------------------------------------------------
(* C1 *)

\* C1: a Set with a non-empty payload that returns no error, directly
\* followed by a Get of the same pair that meets no fault, makes that Get
\* return exactly the payload (binary and multi-line payloads included) and
\* no error.
C1_RoundTrip ==
    [][(/\ last.op = "Set" /\ last.err = Nil /\ last.pass # <<>>
        /\ GetStep /\ SamePair
        /\ Returned.f1 = NoFault)
       => (Returned.val = last.pass /\ Returned.err = Nil)]_vars

----------------------------------------------------------------------------
(* C2 *)

\* C2: a Get or a Delete that reaches the lookup of a pair for which the
\* backend (kernel keyring or Secret Service) holds no record returns
\* ErrNotFound and leaves every stored record unchanged.
C2_NotFound ==
    [][(/\ GetStep \/ DeleteStep
        /\ RecordsOf(provider.kind, Before, Returned.service, Returned.user) = {}
        /\ LookupRuns(Returned.f1))
       => (/\ Returned.err = ErrNotFound
           /\ keyring' = Before.keyring
           /\ items' = Before.items)]_vars

\* A Delete of an absent pair has answered ErrNotFound while the Secret
\* Service holds other records.
C2_Witness ==
    /\ provider.kind = "secretService"
    /\ proc[1].pc = "done" /\ proc[1].op = "Delete"
    /\ proc[1].err = ErrNotFound
    /\ items # {}

----------------------------------------------------------------------------
(* C3 *)

\* C3: a Set that succeeds on a pair that already holds another payload
\* leaves exactly one record for the pair, which holds the new payload; and
\* a Get that directly follows a successful Delete of its pair and reaches
\* the lookup returns ErrNotFound.
C3_Overwrite ==
    [][/\ (/\ SetStep /\ Returned.err = Nil
           /\ \E r \in RecordsOf(provider.kind, Before, Returned.service,
                                 Returned.user) :
                 PayloadOf(provider.kind, r) # Returned.pass)
          => LET records == RecordsOf(provider.kind, TheWorldNext,
                                      Returned.service, Returned.user)
             IN /\ Cardinality(records) = 1
                /\ \A r \in records : PayloadOf(provider.kind, r) = Returned.pass
       /\ (/\ last.op = "Delete" /\ last.err = Nil
           /\ GetStep /\ SamePair /\ LookupRuns(Returned.f1))
          => Returned.err = ErrNotFound]_vars

----------------------------------------------------------------------------
(* C4 *)

\* C4: DeleteAll("") returns ErrNotFound and deletes no record, in every
\* state the stores are in and whatever faults the call would meet, for the
\* Secret Service, and for the composite, which then asks the kernel keyring
\* and returns its ErrNotFound.
C4_DeleteAllEmpty ==
    [][/\ (DeleteAllStep /\ Returned.service = <<>>)
          => /\ Returned.err = ErrNotFound
             /\ Returned.f1 = NoFault /\ Returned.f2 = NoFault
             /\ provider.kind = "composite"
                  => CallsOf(Returned) = <<"secretService", "keyctl">>
       /\ (proc[1].op = "DeleteAll" /\ proc[1].service = <<>>)
          => keyring' = keyring /\ items' = items]_vars

\* The composite has answered DeleteAll("") while both stores hold a record.
C4_Witness ==
    /\ provider.kind = "composite"
    /\ proc[1].pc = "done" /\ proc[1].op = "DeleteAll"
    /\ proc[1].service = <<>> /\ proc[1].err = ErrNotFound
    /\ proc[1].stage = "fallback"
    /\ keyring # {} /\ items # {}

----------------------------------------------------------------------------
(* C5 *)

\* C5: a DeleteAll of a non-empty service that meets no fault leaves no
\* record of that service and leaves the record of every pair of another
\* service as it was.
C5_DeleteAllService ==
    [][(DeleteAllStep /\ Returned.service # <<>> /\ Returned.f1 = NoFault)
       => /\ RecordsOfService(provider.kind, TheWorldNext, Returned.service) = {}
          /\ \A su \in BackendPairs :
                su[1] # Returned.service
                => RecordsOf(provider.kind, TheWorldNext, su[1], su[2])
                     = RecordsOf(provider.kind, Before, su[1], su[2])]_vars

----------------------------------------------------------------------------
(* C6 *)

\* C6: a DeleteAll of a non-empty service of which the backend (kernel
\* keyring or Secret Service) holds no record, and whose backend can be
\* reached, returns nil and changes no record.
C6_DeleteAllNothing ==
    [][(/\ DeleteAllStep
        /\ Returned.service # <<>>
        /\ RecordsOfService(provider.kind, Before, Returned.service) = {}
        /\ LookupRuns(Returned.f1))
       => (/\ Returned.err = Nil
           /\ keyring' = Before.keyring
           /\ items' = Before.items)]_vars

\* The Secret Service has answered nil to a DeleteAll of a service without
\* items while it holds items of another service.
C6_Witness ==
    /\ provider.kind = "secretService"
    /\ proc[1].pc = "done" /\ proc[1].op = "DeleteAll"
    /\ proc[1].service # <<>> /\ proc[1].err = Nil /\ proc[1].f1 = NoFault
    /\ items # {}
    /\ \A it \in items : it.attributes.service # proc[1].service
    /\ Cardinality(items) = MaxItems

----------------------------------------------------------------------------
(* C7 *)

\* C7: a Delete of an existing record that meets no fault returns nil; a
\* Delete that returns nil removes the record of its pair and nothing else:
\* the pair has no record then, and every other pair, the same user under
\* another service and another user under the same service included, has
\* the record it had.
C7_DeleteOne ==
    [][DeleteStep
       => LET mine == RecordsOf(provider.kind, Before, Returned.service,
                                Returned.user)
          IN /\ (mine # {} /\ Returned.f1 = NoFault) => Returned.err = Nil
             /\ Returned.err = Nil =>
                  /\ mine # {}
                  /\ keyring' = (IF provider.kind = "keyctl"
                                 THEN Before.keyring \ mine
                                 ELSE Before.keyring)
                  /\ items' = (IF provider.kind = "keyctl" THEN Before.items
                               ELSE Before.items \ mine)]_vars

----------------------------------------------------------------------------
(* C8 *)

\* C8: when the primary of a composite with a fallback returns an error,
\* the composite calls the fallback with the same arguments, and what it
\* returns is the fallback's result, not the primary's: the call went
\* through both backends, a nil of its Set has stored the payload in the
\* fallback's store, and its Get that meets no fault in the fallback returns
\* what the fallback's store holds, or ErrNotFound.
C8_Fallback ==
    [][(provider.kind = "composite" /\ provider.fallback # "nil")
       => /\ (proc[1].stage = "primary" /\ proc[1].pc # "done"
              /\ proc'[1].stage = "fallback")
             => /\ proc'[1].pc = "start" /\ proc'[1].perr # Nil
                /\ <<proc'[1].op, proc'[1].service, proc'[1].user, proc'[1].pass>>
                     = <<proc[1].op, proc[1].service, proc[1].user, proc[1].pass>>
          /\ (Returning /\ Returned.perr # Nil)
             => LET mine == RecordsOf(provider.fallback, Before,
                                      Returned.service, Returned.user)
                IN /\ CallsOf(Returned) = <<provider.primary, provider.fallback>>
                   /\ (Returned.op = "Set" /\ Returned.err = Nil)
                        => \E k \in keyring' :
                              /\ k.desc = KeyName(Returned.service, Returned.user)
                              /\ k.data = Returned.pass
                   /\ (Returned.op = "Get" /\ Returned.f2 = NoFault)
                        => IF mine = {} THEN Returned.err = ErrNotFound
                           ELSE /\ Returned.err = Nil
                                /\ \A k \in mine : Returned.val = k.data]_vars

\* The composite has returned the kernel keyring's payload for a Get that
\* the Secret Service refused for a reason other than ErrNotFound.
C8_Witness ==
    /\ provider.kind = "composite"
    /\ proc[1].pc = "done" /\ proc[1].op = "Get"
    /\ proc[1].perr = "ECONNECT"
    /\ proc[1].err = Nil /\ proc[1].val = <<0, 255, 10>>

----------------------------------------------------------------------------
(* C9 *)

\* C9: when the primary of a composite returns no error, the fallback is
\* not called and the composite returns the primary's nil; and the
\* fallback's store is left as it is while a call is in the primary.
C9_PrimaryOnly ==
    [][provider.kind = "composite"
       => /\ proc'[1].stage = "primary" => keyring' = keyring
          /\ (Returning /\ Returned.perr = Nil)
             => /\ CallsOf(Returned) = <<provider.primary>>
                /\ Returned.err = Nil
                /\ keyring' = Before.keyring]_vars

\* The composite has stored a payload in the Secret Service alone while the
\* kernel keyring holds another payload for the pair.
C9_Witness ==
    /\ provider.kind = "composite"
    /\ proc[1].pc = "done" /\ proc[1].op = "Set" /\ proc[1].err = Nil
    /\ proc[1].stage = "primary"
    /\ keyring # {}
    /\ \A k \in keyring : k.data # proc[1].pass
    /\ \E it \in items : it.secret = proc[1].pass

----------------------------------------------------------------------------
(* C10 *)

\* C10: right after start-up the provider is the bare Secret-Service
\* provider when the probe succeeded (hook registered or not) and when the
\* probe failed with no backend from the hook, and is the composite of the
\* Secret Service and the hook's backend when the probe failed and the hook
\* yields one.
C10_Selection ==
    last.op = "init" =>
        /\ initpc = "ready"
        /\ last.probe = NoFault => provider = SecretServiceProvider
        /\ (last.probe # NoFault /\ last.hook = "nil")
              => provider = SecretServiceProvider
        /\ (last.probe # NoFault /\ last.hook # "nil")
              => provider = [kind |-> "composite", primary |-> "secretService",
                             fallback |-> last.hook]

\* The probe succeeded with the kernel keyring registered as the fallback.
C10_Witness ==
    /\ last.op = "init" /\ last.probe = NoFault
    /\ last.hook = "keyctl"
    /\ provider = SecretServiceProvider

----------------------------------------------------------------------------
(* Concurrent callers of keyctlProvider.  Each caller makes one call.       *)

Procs == {1, 2}

\* What the callers are given.
ConcurrentPairs == {<<<<"a">>, <<"b">>>>, <<<<"a">>, <<"c">>>>}
ConcurrentPayloads == {<<>>, <<112>>, <<120, 121, 122>>}
Callers ==
    {Caller("Set", su[1], su[2], pass) :
        su \in ConcurrentPairs, pass \in ConcurrentPayloads}
    \cup {Caller("Get", su[1], su[2], <<>>) : su \in ConcurrentPairs}
    \cup {Caller("Delete", su[1], su[2], <<>>) : su \in ConcurrentPairs}
    \cup {Caller("DeleteAll", service, <<>>, <<>>) : service \in {<<>>, <<"a">>}}

\* The keyrings the callers start from: those Set calls made one after
\* another leave behind.
ConcurrentKeyrings ==
    {{}, {[desc |-> KeyName(<<"a">>, <<"b">>), data |-> <<111>>]},
     {[desc |-> KeyName(<<"a">>, <<"b">>), data |-> <<111>>],
      [desc |-> KeyName(<<"a">>, <<"c">>), data |-> <<111>>]}}

InitConcurrent ==
    /\ keyring \in ConcurrentKeyrings
    /\ garbage = EmptyBag
    /\ items = {}
    /\ sessions = 0
    /\ replaces = TRUE
    /\ platform = "linux"
    /\ getFallbackProvider = "keyctl"
    /\ provider = KeyctlProvider
    /\ initpc = "ready"
    /\ last = NoCall
    /\ proc \in [Procs -> Callers]

NextConcurrent ==
    \/ Collect
    \/ \E p \in DOMAIN proc :
        \/ \E fault \in {NoFault, Fault("keyring")} : Enter(p, fault)
        \/ Search(p)
        \/ \E fault \in {NoFault, Fault("unlink")} : Unlink(p, fault)
        \/ Add(p)
        \/ \E fault \in {NoFault, Fault("read")} : SizeQuery(p, fault)
        \/ \E fault \in {NoFault, Fault("read")} : Read(p, fault)
        \/ \E fault \in {NoFault, Fault("keyring"), Fault("tool")},
             order \in Orders(keyring) :
              EnterDeleteAll(p, fault, order)
        \/ Line(p)

SpecConcurrent == InitConcurrent /\ [][NextConcurrent]_vars

AllReturned == \A p \in DOMAIN proc : proc[p].pc = "done"

----------------------------------------------------------------------------
(* Concurrent callers of secretServiceProvider, used directly and as the   *)
(* primary of the composite whose fallback is keyctlProvider.               *)

DaemonCallers ==
    {Caller("Set", <<"a">>, <<"b">>, pass) : pass \in {<<>>, <<112>>}}
    \cup {Caller("Get", <<"a">>, <<"b">>, <<>>),
          Caller("Delete", <<"a">>, <<"b">>, <<>>)}
    \cup {Caller("DeleteAll", service, <<>>, <<>>) : service \in {<<>>, <<"a">>}}

\* The collections the callers start from: those Set calls made one after
\* another leave behind.
DaemonItems ==
    {{},
     {[path |-> [of |-> Attributes(<<"a">>, <<"b">>), n |-> 1],
       attributes |-> Attributes(<<"a">>, <<"b">>),
       secret |-> <<111>>]},
     {[path |-> [of |-> Attributes(<<"a">>, <<"b">>), n |-> 1],
       attributes |-> Attributes(<<"a">>, <<"b">>),
       secret |-> <<111>>],
      [path |-> [of |-> Attributes(<<"a">>, <<"c">>), n |-> 1],
       attributes |-> Attributes(<<"a">>, <<"c">>),
       secret |-> <<111>>]}}

InitCallers ==
    /\ keyring \in {kr \in ConcurrentKeyrings : Cardinality(kr) < 2}
    /\ garbage = EmptyBag
    /\ items \in DaemonItems
    /\ sessions = 0
    /\ replaces \in BOOLEAN
    /\ platform = "linux"
    /\ getFallbackProvider = "keyctl"
    /\ provider \in {SecretServiceProvider,
                     CompositeProvider("secretService", "keyctl")}
    /\ initpc = "ready"
    /\ last = NoCall
    /\ proc \in [Procs -> DaemonCallers]

NextCallers ==
    \/ Collect
    \/ \E p \in DOMAIN proc :
        \/ \E fault \in {NoFault, Fault("connect")} : NewSecretService(p, fault)
        \/ \E fault \in {NoFault, Fault("unlock"), Fault("search")} :
              SvcSearchItems(p, fault)
        \/ \E fault \in {NoFault, Fault("session")} : SvcOpenSession(p, fault)
        \/ \E fault \in {NoFault, Fault("unlock"), Fault("create")} :
              SvcCreateItem(p, fault)
        \/ \E fault \in {NoFault, Fault("unlockitem"), Fault("getsecret")} :
              SvcGetSecret(p, fault)
        \/ SvcClose(p)
        \/ \E fault \in {NoFault, Fault("delete")} : SvcDelete(p, fault)
        \/ \E fault \in {NoFault, Fault("keyring")} : Enter(p, fault)
        \/ Search(p)
        \/ \E fault \in {NoFault, Fault("unlink")} : Unlink(p, fault)
        \/ Add(p)
        \/ \E fault \in {NoFault, Fault("read")} : SizeQuery(p, fault)
        \/ \E fault \in {NoFault, Fault("read")} : Read(p, fault)
        \/ \E fault \in {NoFault, Fault("keyring"), Fault("tool")},
             order \in Orders(keyring) :
              EnterDeleteAll(p, fault, order)
        \/ Line(p)

SpecCallers == InitCallers /\ [][NextCallers]_vars

----------------------------------------------------------------------------
(* C11 *)

\* C11: when a Set or a Get of the Secret-Service provider has returned, by
\* success or by any of its error returns, the session the call opened has
\* been closed: the sessions open at the daemon are those of the calls that
\* are still between their OpenSession and their return.
C11_SessionRelease ==
    /\ \A p \in DOMAIN proc :
          proc[p].pc \notin {"create", "secret", "close"} => ~proc[p].session
    /\ sessions = Cardinality({p \in DOMAIN proc : proc[p].session})

\* A Get has found its item, opened a session, failed in GetSecret and
\* returned, and every call has returned.
C11_Witness ==
    /\ AllReturned
    /\ \E p \in DOMAIN proc :
          proc[p].op = "Get" /\ proc[p].perr = "EGETSECRET"
    /\ sessions = 0

----------------------------------------------------------------------------
(* C12 *)

\* C12: under every interleaving of the kernel calls of concurrent callers
\* the keyring never holds two keys of one description; and once concurrent
\* Set calls on one pair have all returned, one of them with no error, a key
\* named "<service>:<user>" carries the payload of one of those calls.
C12_NoDuplicateKeys ==
    /\ \A k1, k2 \in keyring : k1.desc = k2.desc => k1 = k2
    /\ (/\ AllReturned
        /\ \A p \in Procs : proc[p].op = "Set" /\ proc[p].key = proc[1].key
        /\ \E p \in Procs : proc[p].err = Nil)
       => \A k \in keyring :
             k.desc = proc[1].key => \E p \in Procs : k.data = proc[p].pass

\* Two concurrent Set calls on one pair, with different payloads, have both
\* returned nil and the key carries the payload of the first caller.
C12_Witness ==
    /\ AllReturned
    /\ \A p \in Procs : proc[p].op = "Set" /\ proc[p].err = Nil
    /\ proc[1].key = proc[2].key /\ proc[1].pass # proc[2].pass
    /\ \E k \in keyring : k.desc = proc[1].key /\ k.data = proc[1].pass

----------------------------------------------------------------------------
(* C13 *)

\* C13: when Set of the kernel-keyring provider returns an error (for a
\* zero-length pass in particular), the record the pair had before the call
\* is still there with its previous payload.
C13_FailedSetKeepsRecord ==
    [][(SetStep /\ provider.kind = "keyctl" /\ Returned.err # Nil)
       => LET before == RecordsOf("keyctl", Before, Returned.service,
                                  Returned.user)
          IN before # {} =>
                RecordsOf("keyctl", TheWorldNext, Returned.service,
                          Returned.user) = before]_vars

----------------------------------------------------------------------------
(* C14 *)

\* Services and users that contain ':': the pairs ("a", ":b"), ("a:", "b")
\* and ("a:b", "c"), the services "a", "a:" and "a:b".
AliasPairs ==
    {<<<<"a">>, <<":", "b">>>>, <<<<"a", ":">>, <<"b">>>>,
     <<<<"a", ":", "b">>, <<"c">>>>}
AliasServices == {<<"a">>, <<"a", ":">>, <<"a", ":", "b">>}
AliasPayloads == {<<112>>, <<0, 255, 10>>}

InitAlias ==
    /\ keyring = {}
    /\ garbage = EmptyBag
    /\ items = {}
    /\ sessions = 0
    /\ replaces = TRUE
    /\ platform = "linux"
    /\ getFallbackProvider = "keyctl"
    /\ provider = KeyctlProvider
    /\ initpc = "ready"
    /\ last = NoCall
    /\ proc = OneCaller

NextAlias ==
    \/ Collect
    \/ \E p \in DOMAIN proc :
        \/ \E su \in AliasPairs, pass \in AliasPayloads :
              Call(p, "Set", su[1], su[2], pass)
        \/ \E su \in AliasPairs : Call(p, "Get", su[1], su[2], <<>>)
        \/ \E su \in AliasPairs : Call(p, "Delete", su[1], su[2], <<>>)
        \/ \E service \in AliasServices : Call(p, "DeleteAll", service, <<>>, <<>>)
        \/ \E fault \in {NoFault, Fault("keyring")} : Enter(p, fault)
        \/ Search(p)
        \/ \E fault \in {NoFault, Fault("unlink")} : Unlink(p, fault)
        \/ Add(p)
        \/ \E fault \in {NoFault, Fault("read")} : SizeQuery(p, fault)
        \/ \E fault \in {NoFault, Fault("read")} : Read(p, fault)
        \/ \E fault \in {NoFault, Fault("keyring"), Fault("tool")},
             order \in Orders(keyring) :
              EnterDeleteAll(p, fault, order)
        \/ Line(p)

SpecAlias == InitAlias /\ [][NextAlias]_vars

\* C14: on the kernel-keyring provider, a Set or a Delete addressed to one
\* pair leaves the record of every other pair as it was, and a DeleteAll of
\* one service leaves the record of every pair of another service as it
\* was, services and users containing ':' included.
C14_NoAlias ==
    [][\A su \in AliasPairs :
          /\ ((SetStep \/ DeleteStep) /\ su # <<Returned.service, Returned.user>>)
                => RecordsOf("keyctl", TheWorldNext, su[1], su[2])
                     = RecordsOf("keyctl", Before, su[1], su[2])
          /\ (DeleteAllStep /\ su[1] # Returned.service)
                => RecordsOf("keyctl", TheWorldNext, su[1], su[2])
                     = RecordsOf("keyctl", Before, su[1], su[2])]_vars

----------------------------------------------------------------------------
(* C15 *)

\* C15: after a Delete of the composite has returned no error, a Get of the
\* composite for the same pair that directly follows it and meets no fault
\* returns ErrNotFound, also when both backends held a record for the pair.
C15_CompositeDelete ==
    [][(/\ provider.kind = "composite"
        /\ last.op = "Delete" /\ last.err = Nil
        /\ GetStep /\ SamePair
        /\ Returned.f1 = NoFault /\ Returned.f2 = NoFault)
       => Returned.err = ErrNotFound]_vars

----------------------------------------------------------------------------
(* C16 *)

\* C16: after a Set of the composite with payload p has returned no error,
\* a Get of the composite for the same pair that directly follows it
\* returns p and no error, whether the primary is reachable at the Get or
\* not.
C16_CompositeReadYourWrites ==
    [][(/\ provider.kind = "composite"
        /\ last.op = "Set" /\ last.err = Nil
        /\ GetStep /\ SamePair
        /\ Returned.f1.kind \in {"none", "connect"} /\ Returned.f2 = NoFault)
       => (Returned.val = last.pass /\ Returned.err = Nil)]_vars

----------------------------------------------------------------------------
(* C17 *)

\* C17: when the primary of the composite answers a Get with ErrNotFound or
\* with any other error, and the fallback holds the payload p for the pair
\* and answers, the Get of the composite returns p and no error.
C17_FallbackReachable ==
    [][(/\ provider.kind = "composite" /\ provider.fallback # "nil"
        /\ GetStep
        /\ Returned.perr # Nil /\ Returned.f2 = NoFault)
       => \A rec \in RecordsOf(provider.fallback, Before,
                               Returned.service, Returned.user) :
             Returned.val = rec.data /\ Returned.err = Nil]_vars

\* The Secret Service was reachable and held nothing, and the composite has
\* returned the payload that the kernel keyring alone holds.
C17_Witness ==
    /\ provider.kind = "composite"
    /\ proc[1].pc = "done" /\ proc[1].op = "Get"
    /\ proc[1].perr = ErrNotFound
    /\ proc[1].err = Nil /\ proc[1].val = <<0, 255, 10>>
    /\ items = {}
    /\ \E k \in keyring : k.data = proc[1].val

----------------------------------------------------------------------------
(* C18 *)

\* C18: DeleteAll of the Secret-Service provider deletes the matching items
\* in the order of the search, one in each turn of its loop; when the
\* Delete of a turn fails it returns that error at once, with the matches of
\* the turns before deleted and that match and every later one still
\* stored.
C18_DeleteAllStopsAtFailure ==
    [][(/\ provider.kind = "secretService"
        /\ proc[1].op = "DeleteAll" /\ proc'[1] # proc[1])
       => /\ (proc[1].pc = "find" /\ proc'[1].pc = "delete")
             => proc'[1].paths
                  = SearchItems(items, [service |-> proc[1].service])
          /\ proc[1].pc = "delete"
             => LET item == Head(proc[1].paths)
                    later == Tail(proc[1].paths)
                IN IF proc'[1].f1.kind = "delete"
                   THEN /\ Returning /\ Returned.err = "EDELETE"
                        /\ items' = items
                        /\ \A i \in DOMAIN proc[1].paths :
                              \E it \in items' : it.path = proc[1].paths[i]
                   ELSE /\ items' = {it \in items : it.path # item}
                        /\ IF later = <<>>
                           THEN Returning /\ Returned.err = Nil
                           ELSE proc'[1].pc = "delete" /\ proc'[1].paths = later]_vars

\* DeleteAll has failed at the second of two matches: it returned the error
\* and one item of the service is left.
C18_Witness ==
    /\ provider.kind = "secretService"
    /\ proc[1].pc = "done" /\ proc[1].op = "DeleteAll"
    /\ proc[1].err = "EDELETE" /\ proc[1].turn = 2
    /\ Cardinality(RecordsOfService("secretService", TheWorld, proc[1].service)) = 1

----------------------------------------------------------------------------
(* C19 *)

\* C19: DeleteAll of the kernel-keyring provider is best-effort: when a
\* listed key is gone at its search, or its unlink fails because a
\* concurrent Delete removed the key first or for any other reason,
\* DeleteAll goes on with the remaining lines of the listing, and at the end
\* of the listing it returns nil.
C19_DeleteAllBestEffort ==
    [][\A p \in Procs :
         (/\ proc[p].op = "DeleteAll"
          /\ <<proc'[p].pc, proc'[p].lines>> # <<proc[p].pc, proc[p].lines>>)
         => /\ proc[p].pc = "unlink"
                 => /\ proc'[p].pc = "line"
                    /\ proc'[p].lines = proc[p].lines
                    /\ proc'[p].err = Nil
            /\ (proc[p].pc = "line" /\ proc[p].lines # <<>>)
                 => /\ proc'[p].pc \in {"line", "unlink"}
                    /\ proc'[p].lines = Tail(proc[p].lines)
                    /\ proc'[p].err = Nil
            /\ (proc[p].pc = "line" /\ proc[p].lines = <<>>)
                 => proc'[p].pc = "done" /\ proc'[p].err = Nil]_vars

\* A DeleteAll and a concurrent Delete have both found the same key, the
\* Delete has unlinked it, and the DeleteAll has returned nil all the same.
C19_Witness ==
    /\ AllReturned
    /\ \E p, q \in Procs :
          /\ proc[p].op = "DeleteAll" /\ proc[p].err = Nil
          /\ proc[q].op = "Delete" /\ proc[q].err = Nil
          /\ proc[p].key # <<>> /\ proc[p].key = proc[q].key

----------------------------------------------------------------------------
(* C20 *)

\* C20: when the `keyctl show` command fails to run, DeleteAll of the
\* kernel-keyring provider for a non-empty service returns nil and leaves
\* every key in place: the error of running the command is not returned.
C20_ToolFailure ==
    [][(DeleteAllStep /\ provider.kind = "keyctl"
        /\ Returned.service # <<>> /\ Returned.f1.kind = "tool")
       => Returned.err = Nil /\ keyring' = Before.keyring]_vars

\* The command has failed for a service that has a key: DeleteAll returned
\* nil and the key is still there.
C20_Witness ==
    /\ provider.kind = "keyctl"
    /\ proc[1].pc = "done" /\ proc[1].op = "DeleteAll"
    /\ proc[1].f1.kind = "tool" /\ proc[1].err = Nil
    /\ RecordsOfService("keyctl", TheWorld, proc[1].service) # {}

----------------------------------------------------------------------------
(* A Get beside a Set that overwrites: the pair ("a", "b") has a record,    *)
(* one caller sets it to a non-empty payload, another gets it, and a third  *)
(* caller, when there is one, sets it too.                                  *)

InitOverwrite ==
    /\ keyring \in {kr \in ConcurrentKeyrings :
                      KeyctlSearch(kr, KeyName(<<"a">>, <<"b">>)) # NoKey}
    /\ garbage = EmptyBag
    /\ items = {}
    /\ sessions = 0
    /\ replaces = TRUE
    /\ platform = "linux"
    /\ getFallbackProvider = "keyctl"
    /\ provider = KeyctlProvider
    /\ initpc = "ready"
    /\ last = NoCall
    /\ \E n \in 2..3, pass \in [{1, 3} -> ConcurrentPayloads \ {<<>>}] :
          proc = [p \in 1..n |->
                    IF p = 2 THEN Caller("Get", <<"a">>, <<"b">>, <<>>)
                    ELSE Caller("Set", <<"a">>, <<"b">>, pass[p])]

NextOverwrite ==
    \/ Collect
    \/ \E p \in DOMAIN proc :
        \/ \E fault \in {NoFault, Fault("keyring")} : Enter(p, fault)
        \/ Search(p)
        \/ \E fault \in {NoFault, Fault("unlink")} : Unlink(p, fault)
        \/ Add(p)
        \/ \E fault \in {NoFault, Fault("read")} : SizeQuery(p, fault)
        \/ \E fault \in {NoFault, Fault("read")} : Read(p, fault)

SpecOverwrite == InitOverwrite /\ [][NextOverwrite]_vars

----------------------------------------------------------------------------
(* C21 *)

\* C21: a Get that runs beside a Set of a non-empty payload on a pair that
\* has a record never returns ErrNotFound.
C21_GetDuringOverwrite ==
    \A p \in DOMAIN proc :
        (proc[p].op = "Get" /\ proc[p].pc = "done") => proc[p].err # ErrNotFound

----------------------------------------------------------------------------
(* A composite built without a fallback, compositeProvider{primary: p}, as *)
(* code of the package can build it; start-up never selects one.           *)

InitNoFallback ==
    /\ keyring = {}
    /\ garbage = EmptyBag
    /\ items = {}
    /\ sessions = 0
    /\ platform = "linux"
    /\ getFallbackProvider = "keyctl"
    /\ provider \in {CompositeProvider("secretService", "nil"),
                     CompositeProvider("keyctl", "nil")}
    /\ replaces \in (IF provider.primary = "keyctl" THEN {TRUE} ELSE BOOLEAN)
    /\ initpc = "ready"
    /\ last = NoCall
    /\ proc = OneCaller

NoFallbackPairs == {<<<<"a">>, <<"b">>>>, <<<<"a">>, <<"c">>>>}

NextNoFallback ==
    \/ Collect
    \/ \E p \in DOMAIN proc :
        \/ \E su \in NoFallbackPairs, pass \in Payloads :
              Call(p, "Set", su[1], su[2], pass)
        \/ \E su \in NoFallbackPairs : Call(p, "Get", su[1], su[2], <<>>)
        \/ \E su \in NoFallbackPairs : Call(p, "Delete", su[1], su[2], <<>>)
        \/ \E service \in Services : Call(p, "DeleteAll", service, <<>>, <<>>)
        \/ \E fault \in {NoFault, Fault("connect")} : NewSecretService(p, fault)
        \/ \E fault \in {NoFault, Fault("unlock"), Fault("search")} :
              SvcSearchItems(p, fault)
        \/ \E fault \in {NoFault, Fault("session")} : SvcOpenSession(p, fault)
        \/ \E fault \in {NoFault, Fault("unlock"), Fault("create")} :
              SvcCreateItem(p, fault)
        \/ \E fault \in {NoFault, Fault("unlockitem"), Fault("getsecret")} :
              SvcGetSecret(p, fault)
        \/ SvcClose(p)
        \/ \E fault \in {NoFault, Fault("delete")} : SvcDelete(p, fault)
        \/ \E fault \in {NoFault, Fault("keyring")} : Enter(p, fault)
        \/ Search(p)
        \/ \E fault \in {NoFault, Fault("unlink")} : Unlink(p, fault)
        \/ Add(p)
        \/ \E fault \in {NoFault, Fault("read")} : SizeQuery(p, fault)
        \/ \E fault \in {NoFault, Fault("read")} : Read(p, fault)
        \/ \E fault \in {NoFault, Fault("keyring"), Fault("tool")},
             order \in Orders(keyring) :
              EnterDeleteAll(p, fault, order)
        \/ Line(p)

SpecNoFallback == InitNoFallback /\ [][NextNoFallback]_vars

----------------------------------------------------------------------------
(* C23 *)

\* C23: a composite with no fallback returns, for Set, Get, Delete and
\* DeleteAll alike, the error of its primary unchanged, and calls nothing
\* but the primary: what a Get returns is what the primary's store holds
\* for the pair, and the other backend's store is left as it is.
C23_NoFallback ==
    [][(provider.kind = "composite" /\ provider.fallback = "nil")
       => /\ proc'[1].stage = "primary"
          /\ (provider.primary = "keyctl" => items' = items)
          /\ (provider.primary = "secretService" => keyring' = keyring)
          /\ Returning
             => /\ CallsOf(Returned) = <<provider.primary>>
                /\ Returned.err = Returned.perr
                /\ (Returned.op = "Get" /\ Returned.err = Nil)
                     => \E r \in RecordsOf(provider.primary, Before,
                                           Returned.service, Returned.user) :
                           Returned.val = PayloadOf(provider.primary, r)]_vars

\* A composite with no fallback has returned its primary's error from a
\* Delete.
C23_Witness ==
    /\ provider.kind = "composite" /\ provider.fallback = "nil"
    /\ proc[1].pc = "done" /\ proc[1].op = "Delete"
    /\ proc[1].err \notin {Nil, ErrNotFound}
    /\ proc[1].stage = "primary"

====
